---------------------------- MODULE Spec2Model ----------------------------
(***************************************************************************)
(* Black-Scholes pricing engine and its HTTP boundary                      *)
(* (src/app/api/calculate-greeks/route.ts).                                *)
(*                                                                         *)
(* JavaScript numbers are modelled as decimal fixed-point values with      *)
(* twelve fractional digits, held as sign and magnitude, the magnitude a   *)
(* little-endian sequence of limbs of radix 10^4, together with the three  *)
(* IEEE-754 special values NaN, +Infinity and -Infinity.  Every operation  *)
(* rounds its exact result to the nearest representable value, as the      *)
(* double arithmetic of the engine does at its own (finer) resolution.     *)
(* The sign of zero is not modelled.                                       *)
(***************************************************************************)
EXTENDS Integers, Sequences, FiniteSets, TLC

---------------------------------------------------------------------------
(* Natural numbers of arbitrary size: sequences of limbs, lowest first,    *)
(* without leading (highest) zero limbs; <<>> is zero.                     *)

Base == 10000

FracLimbs == 3

Limb(a, i) == IF i <= Len(a) THEN a[i] ELSE 0

MaxInt(x, y) == IF x >= y THEN x ELSE y

MinInt(x, y) == IF x <= y THEN x ELSE y

\* The largest element of a finite set of positive integers, 0 for the empty set.
TopOf(S) == IF S = {} THEN 0 ELSE CHOOSE i \in S : \A j \in S : j <= i

\* a without its leading zero limbs.
NNorm(a) ==
  IF Len(a) = 0 THEN <<>> ELSE SubSeq(a, 1, TopOf({i \in 1..Len(a) : a[i] # 0}))

\* Order of a and b from the highest limb i in which they differ.
NCmpAt(a, b, i) == IF i = 0 THEN 0 ELSE IF a[i] > b[i] THEN 1 ELSE -1

NCmp(a, b) ==
  IF Len(a) > Len(b) THEN 1
  ELSE IF Len(a) < Len(b) THEN -1
  ELSE NCmpAt(a, b, TopOf({i \in 1..Len(a) : a[i] # b[i]}))

\* Whether limb i receives a carry when the limb sums s, each below
\* 2 * Base - 1, are brought below Base: some lower limb overflows and every
\* limb between passes the carry on.
CarryInto(s, i) ==
  \E j \in 1..(i - 1) :
    s[j] >= Base /\ \A k \in (j + 1)..(i - 1) : s[k] = Base - 1

NAddSums(s) ==
  [i \in 1..Len(s) |-> (s[i] + (IF CarryInto(s, i) THEN 1 ELSE 0)) % Base]
  \o (IF CarryInto(s, Len(s) + 1) THEN <<1>> ELSE <<>>)

NAdd(a, b) ==
  IF Len(a) = 0 THEN b
  ELSE IF Len(b) = 0 THEN a
  ELSE NAddSums([i \in 1..MaxInt(Len(a), Len(b)) |-> Limb(a, i) + Limb(b, i)])

\* Whether limb i lends to a lower one in a - b, d the limb differences.
BorrowInto(d, i) ==
  \E j \in 1..(i - 1) : d[j] < 0 /\ \A k \in (j + 1)..(i - 1) : d[k] = 0

NSubDiffs(d) ==
  NNorm([i \in 1..Len(d) |->
           (d[i] - (IF BorrowInto(d, i) THEN 1 ELSE 0) + Base) % Base])

\* a - b for a >= b.
NSub(a, b) ==
  IF Len(b) = 0 THEN a ELSE NSubDiffs([i \in 1..Len(a) |-> a[i] - Limb(b, i)])

\* The number whose limb values are v, each below 2^31: the three digits of
\* every value are added in their places.
NCarry(v) ==
  IF Len(v) = 0 THEN <<>>
  ELSE NNorm(NAdd(NAdd([i \in 1..Len(v) |-> v[i] % Base],
                  <<0>> \o [i \in 1..Len(v) |-> (v[i] \div Base) % Base]),
             <<0, 0>> \o [i \in 1..Len(v) |-> v[i] \div (Base * Base)]))

\* a * d for 0 <= d < 2^31 / Base.
NMulSmall(a, d) ==
  IF d = 0 \/ Len(a) = 0 THEN <<>> ELSE NCarry([i \in 1..Len(a) |-> a[i] * d])

NShl(a, n) == IF Len(a) = 0 THEN <<>> ELSE [i \in 1..n |-> 0] \o a

NShr(a, n) == IF Len(a) <= n THEN <<>> ELSE SubSeq(a, n + 1, Len(a))

\* The sum of a[i] * b[k + 1 - i] over i in lo..hi.
RECURSIVE ColSum(_, _, _, _, _)
ColSum(a, b, k, lo, hi) ==
  IF lo > hi THEN 0
  ELSE IF lo = hi THEN a[lo] * b[k + 1 - lo]
  ELSE ColSum(a, b, k, lo, (lo + hi) \div 2)
       + ColSum(a, b, k, (lo + hi) \div 2 + 1, hi)

\* a * b.  Column sums stay below 2^31 while b has at most 20 limbs; a longer
\* b is split in two.
RECURSIVE NMul(_, _)
NMul(a, b) ==
  IF Len(a) = 0 \/ Len(b) = 0 THEN <<>>
  ELSE IF Len(b) <= 20
    THEN NCarry([k \in 1..(Len(a) + Len(b) - 1) |->
                   ColSum(a, b, k, MaxInt(1, k + 1 - Len(b)), MinInt(Len(a), k))])
  ELSE NAdd(NMul(a, NNorm(SubSeq(b, 1, Len(b) \div 2))),
            NShl(NMul(a, SubSeq(b, Len(b) \div 2 + 1, Len(b))), Len(b) \div 2))

\* floor(a / d) for 0 < d < 2^31 / Base, highest limb first: st.i limbs are
\* left, st.r is the remainder so far and st.q the quotient limbs found.
RECURSIVE NDivSmallAt(_, _, _)
NDivSmallAt(a, d, st) ==
  IF st.i = 0 THEN st.q
  ELSE NDivSmallAt(a, d, [i |-> st.i - 1,
                          r |-> (st.r * Base + a[st.i]) % d,
                          q |-> <<(st.r * Base + a[st.i]) \div d>> \o st.q])

NDivSmall(a, d) ==
  IF Len(a) = 0 THEN <<>>
  ELSE NNorm(NDivSmallAt(a, d, [i |-> Len(a), r |-> 0, q |-> <<>>]))

RECURSIVE NQDigit(_, _, _, _)
NQDigit(r, b, lo, hi) ==
  IF lo >= hi THEN lo
  ELSE IF NCmp(NMulSmall(b, (lo + hi + 1) \div 2), r) <= 0
    THEN NQDigit(r, b, (lo + hi + 1) \div 2, hi)
    ELSE NQDigit(r, b, lo, (lo + hi + 1) \div 2 - 1)

\* floor(x * 10^k / d) for 0 <= x and 0 < d < 10^8, capped at Base - 1.
RECURSIVE ScaledQuotAt(_, _, _, _)
ScaledQuotAt(q, r, d, k) ==
  IF q >= Base THEN Base - 1
  ELSE IF k = 0 THEN q
  ELSE ScaledQuotAt(10 * q + (10 * r) \div d, (10 * r) % d, d, k - 1)

ScaledQuot(x, d, k) == ScaledQuotAt(x \div d, x % d, d, k)

\* One quotient limb: the largest q with q * b <= r, for r < Base * b.  The
\* leading limbs of r and b give q (one-limb b) or bracket it within a few units.
NQuot(r, b) ==
  IF NCmp(r, b) < 0 THEN 0
  ELSE LET n   == Len(b)
           rt  == Limb(r, n + 1) * Base + Limb(r, n)
       IN  IF n = 1 THEN rt \div b[1]
           ELSE LET bt2 == b[n] * Base + b[n - 1]
                IN  NQDigit(r, b, ScaledQuot(rt, bt2 + 1, 4),
                            ScaledQuot(rt + 1, bt2, 4))

\* Long division, highest limb first: i limbs of a are left, cur is the
\* remainder with limb i brought down, q the quotient limb it gives and qs
\* the quotient limbs found before.
NDivLimb(b, i, cur, q, qs) ==
  IF q = 0 THEN [i |-> i - 1, r |-> cur, q |-> <<0>> \o qs]
  ELSE [i |-> i - 1, r |-> NSub(cur, NMulSmall(b, q)), q |-> <<q>> \o qs]

NDivDown(b, i, cur, qs) == NDivLimb(b, i, cur, NQuot(cur, b), qs)

RECURSIVE NDivAt(_, _, _)
NDivAt(a, b, st) ==
  IF st.i = 0 THEN st.q
  ELSE NDivAt(a, b, NDivDown(b, st.i, NNorm(<<a[st.i]>> \o st.r), st.q))

\* floor(a / b) for b > 0.  The leading Len(b) - 1 limbs of a are less than b
\* and start as the remainder.
NDivFrom(a, b, k) ==
  NNorm(NDivAt(a, b, [i |-> Len(a) - k,
                      r |-> NNorm(SubSeq(a, Len(a) - k + 1, Len(a))),
                      q |-> <<>>]))

NDiv(a, b) ==
  IF NCmp(a, b) < 0 THEN <<>> ELSE NDivFrom(a, b, Len(b) - 1)

RECURSIVE ISqrtAt(_, _, _)
ISqrtAt(t, lo, hi) ==
  IF lo >= hi THEN lo
  ELSE IF ((lo + hi + 1) \div 2) * ((lo + hi + 1) \div 2) <= t
    THEN ISqrtAt(t, (lo + hi + 1) \div 2, hi)
    ELSE ISqrtAt(t, lo, (lo + hi + 1) \div 2 - 1)

\* Newton's iteration for the integer square root, from a y above it: st.y2
\* is the iterate after st.y.
NSqrtNext(n, y) == [y |-> y, y2 |-> NDivSmall(NAdd(y, NDiv(n, y)), 2)]

RECURSIVE NSqrtAt(_, _)
NSqrtAt(n, st) ==
  IF NCmp(st.y2, st.y) >= 0 THEN st.y ELSE NSqrtAt(n, NSqrtNext(n, st.y2))

\* r = floor(sqrt(n)), rounded up when n is nearer to (r + 1)^2.
NSqrtRound(n, r) ==
  IF Len(r) = 0 THEN r
  ELSE IF NCmp(NSub(n, NMul(r, r)), r) > 0 THEN NAdd(r, <<1>>) ELSE r

\* An upper estimate of sqrt(n) from the two leading limbs of n, top, and the
\* number L - 2 of limbs below them.
NSqrtGuess(top, below) ==
  NMulSmall(NShl(<<1>>, below \div 2),
            (ISqrtAt(top, 0, Base) + 1) * (IF below % 2 = 1 THEN 100 ELSE 1))

NSqrt(n) ==
  IF Len(n) = 0 THEN <<>>
  ELSE IF Len(n) = 1 THEN NSqrtRound(n, <<ISqrtAt(n[1], 0, Base)>>)
  ELSE NSqrtRound(n, NSqrtAt(n, NSqrtNext(n,
         NSqrtGuess(n[Len(n)] * Base + n[Len(n) - 1], Len(n) - 2))))

---------------------------------------------------------------------------
(* Numbers: [k, s, m] with k the kind ("fin", "inf", "nan"), s the sign    *)
(* (1 or -1) and m the magnitude in units of Base^-FracLimbs.              *)

NaN == [k |-> "nan", s |-> 1, m |-> <<>>]

Inf(s) == [k |-> "inf", s |-> s, m |-> <<>>]

\* Number.MAX_VALUE, 1.7976931348623157e308, as a magnitude: a finite result
\* beyond it overflows to an infinity.
MaxMagnitude == NShl(<<3157, 4862, 9313, 9769, 1>>, 73 + FracLimbs)

Fin(s, m) ==
  IF NCmp(m, MaxMagnitude) > 0 THEN Inf(s)
  ELSE [k |-> "fin", s |-> IF Len(m) = 0 THEN 1 ELSE s, m |-> m]

RECURSIVE IntLimbs(_)
IntLimbs(n) == IF n = 0 THEN <<>> ELSE <<n % Base>> \o IntLimbs(n \div Base)

\* The decimal s * (n + 0.f1f2...), f the groups of four digits after the point.
Dec(s, n, f) ==
  Fin(s, NNorm([i \in 1..FracLimbs |->
                  IF FracLimbs + 1 - i <= Len(f) THEN f[FracLimbs + 1 - i] ELSE 0]
               \o IntLimbs(n)))

Num(n) == IF n < 0 THEN Dec(-1, -n, <<>>) ELSE Dec(1, n, <<>>)

Zero == Num(0)

One == Num(1)

HalfUlp == [i \in 1..FracLimbs |-> IF i = FracLimbs THEN Base \div 2 ELSE 0]

IsNaN(x) == x.k = "nan"

IsFinite(x) == x.k = "fin"

IsZero(x) == x.k = "fin" /\ Len(x.m) = 0

FNeg(x) ==
  IF x.k = "nan" THEN NaN
  ELSE IF x.k = "inf" THEN Inf(-x.s)
  ELSE Fin(-x.s, x.m)

\* Order of two numbers neither of which is NaN: -1, 0 or 1.
Rank(x) == IF x.k = "inf" THEN x.s ELSE 0

Cmp(x, y) ==
  IF Rank(x) # Rank(y) THEN (IF Rank(x) < Rank(y) THEN -1 ELSE 1)
  ELSE IF x.k = "inf" THEN 0
  ELSE IF x.s # y.s THEN x.s
  ELSE x.s * NCmp(x.m, y.m)

FLt(x, y) == ~IsNaN(x) /\ ~IsNaN(y) /\ Cmp(x, y) < 0

FLe(x, y) == ~IsNaN(x) /\ ~IsNaN(y) /\ Cmp(x, y) <= 0

FGt(x, y) == ~IsNaN(x) /\ ~IsNaN(y) /\ Cmp(x, y) > 0

FGe(x, y) == ~IsNaN(x) /\ ~IsNaN(y) /\ Cmp(x, y) >= 0

FAdd(x, y) ==
  IF IsNaN(x) \/ IsNaN(y) THEN NaN
  ELSE IF x.k = "inf" THEN (IF y.k = "inf" /\ y.s # x.s THEN NaN ELSE x)
  ELSE IF y.k = "inf" THEN y
  ELSE IF x.s = y.s THEN Fin(x.s, NAdd(x.m, y.m))
  ELSE IF NCmp(x.m, y.m) >= 0 THEN Fin(x.s, NSub(x.m, y.m))
  ELSE Fin(y.s, NSub(y.m, x.m))

FSub(x, y) == FAdd(x, FNeg(y))

FMul(x, y) ==
  IF IsNaN(x) \/ IsNaN(y) THEN NaN
  ELSE IF x.k = "inf" \/ y.k = "inf"
    THEN (IF IsZero(x) \/ IsZero(y) THEN NaN ELSE Inf(x.s * y.s))
  ELSE IF Len(x.m) + Len(y.m) - 2 - FracLimbs >= Len(MaxMagnitude)
    THEN Inf(x.s * y.s)   \* the product is at least Base^Len(MaxMagnitude)
  ELSE Fin(x.s * y.s, NShr(NAdd(NMul(x.m, y.m), HalfUlp), FracLimbs))

FDiv(x, y) ==
  IF IsNaN(x) \/ IsNaN(y) THEN NaN
  ELSE IF x.k = "inf" THEN (IF y.k = "inf" THEN NaN ELSE Inf(x.s * y.s))
  ELSE IF y.k = "inf" THEN Zero
  ELSE IF IsZero(y) THEN (IF IsZero(x) THEN NaN ELSE Inf(x.s))
  ELSE IF Len(x.m) + FracLimbs - 1 - Len(y.m) >= Len(MaxMagnitude)
    THEN Inf(x.s * y.s)   \* the quotient is at least Base^Len(MaxMagnitude)
  ELSE Fin(x.s * y.s,
           NDiv(NAdd(NMulSmall(NShl(x.m, FracLimbs), 2), y.m), NMulSmall(y.m, 2)))

\* x / n and x * n for an integer 0 < n < Base, as FDiv(x, Num(n)) and
\* FMul(x, Num(n)) compute them.
FDivInt(x, n) ==
  IF x.k # "fin" THEN x
  ELSE Fin(x.s, NDivSmall(NAdd(NMulSmall(x.m, 2), <<n>>), 2 * n))

FMulInt(x, n) ==
  IF x.k # "fin" THEN x ELSE Fin(x.s, NMulSmall(x.m, n))

\* Math.max of two numbers: NaN when either is.
MathMax(x, y) ==
  IF IsNaN(x) \/ IsNaN(y) THEN NaN ELSE IF Cmp(x, y) >= 0 THEN x ELSE y

MathSqrt(x) ==
  IF IsNaN(x) THEN NaN
  ELSE IF IsZero(x) THEN Zero
  ELSE IF x.s = -1 THEN NaN
  ELSE IF x.k = "inf" THEN x
  ELSE Fin(1, NSqrt(NShl(x.m, FracLimbs)))

Half == Dec(1, 0, <<5000>>)

\* Math.LN2 and Math.PI at the model's resolution.
Ln2 == Dec(1, 0, <<6931, 4718, 560>>)

MathPI == Dec(1, 3, <<1415, 9265, 3590>>)

\* Arguments beyond which Math.exp overflows to Infinity, and below which its
\* result is closer to 0 than to the smallest positive value of the model.
ExpOverflow == Dec(1, 709, <<7827, 1289, 3384>>)

ExpUnderflow == Num(-10 * FracLimbs - 2)

\* The sum of the terms y^j / j! for finite 0 <= y < 1/2, term by term until
\* one rounds to 0: st.t is the term of index st.n - 1, st.sum the sum of those
\* before it.
ExpTerm(y, n, t, sum) ==
  [n |-> n + 1, t |-> FDivInt(FMul(t, y), n), sum |-> FAdd(sum, t)]

RECURSIVE ExpSeries(_, _)
ExpSeries(y, st) ==
  IF IsZero(st.t) THEN st.sum ELSE ExpSeries(y, ExpTerm(y, st.n, st.t, st.sum))

\* The least k with a / 2^k < 1/2, for 0 <= a <= ExpOverflow.
ExpHalvings(a) ==
  CHOOSE k \in 0..11 :
    /\ FLt(FMulInt(a, 2), Num(2 ^ k))
    /\ k = 0 \/ ~FLt(FMulInt(a, 2), Num(2 ^ (k - 1)))

\* st.v squared st.k times.
RECURSIVE ExpSquare(_)
ExpSquare(st) ==
  IF st.k = 0 THEN st.v ELSE ExpSquare([k |-> st.k - 1, v |-> FMul(st.v, st.v)])

\* exp(a) for finite 0 <= a <= ExpOverflow: a is halved k times so that the
\* series converges fast, and the result squared back.
ExpPosBy(a, k) ==
  ExpSquare([k |-> k,
             v |-> ExpSeries(FDivInt(a, 2 ^ k), [n |-> 1, t |-> One, sum |-> Zero])])

ExpPos(a) == ExpPosBy(a, ExpHalvings(a))

\* exp(x) from e = exp(|x|).
ExpSigned(x, e) == IF x.s = 1 THEN e ELSE FDiv(One, e)

MathExp(x) ==
  IF IsNaN(x) THEN NaN
  ELSE IF x.k = "inf" THEN (IF x.s = 1 THEN x ELSE Zero)
  ELSE IF FGt(x, ExpOverflow) THEN Inf(1)
  ELSE IF FLt(x, ExpUnderflow) THEN Zero
  ELSE ExpSigned(x, ExpPos(Fin(1, x.m)))

\* Math.log(Base) at the model's resolution.
LnBase == Dec(1, 9, <<2103, 4037, 1976>>)

\* The sum of z^n / n over the odd n, term by term until one rounds to 0:
\* st.p is z^st.n, st.t the term it gives and st.sum the sum of the terms
\* before it; z2 is z^2.
AtanhTerm(n, pw, sum) == [n |-> n, p |-> pw, t |-> FDivInt(pw, n), sum |-> sum]

RECURSIVE AtanhSeries(_, _)
AtanhSeries(z2, st) ==
  IF IsZero(st.t) THEN st.sum
  ELSE AtanhSeries(z2, AtanhTerm(st.n + 2, FMul(st.p, z2), FAdd(st.sum, st.t)))

Atanh(z) == AtanhSeries(FMul(z, z), AtanhTerm(1, z, Zero))

\* ln(x) for finite x > 0 as e * ln(Base) + k * ln(2) + ln(m), where
\* x = Base^e * 2^k * m with 3/4 <= m < 3/2, and ln(m) = 2 atanh((m-1)/(m+1)).
LogExponent(x) ==
  IF Len(x.m) > FracLimbs THEN Len(x.m) - 1 - FracLimbs ELSE Len(x.m) - FracLimbs

\* x / Base^e, in [1/Base, Base).
LogMantissa(x, e) ==
  IF e >= 0 THEN Fin(1, NShr(x.m, e)) ELSE Fin(1, NShl(x.m, -e))

\* m0 < 3/2 * 2^k.
LogBelow(m0, k) ==
  FLt(FMulInt(m0, 2 * 2 ^ MaxInt(-k, 0)), Num(3 * 2 ^ MaxInt(k, 0)))

LogHalvings(m0) ==
  CHOOSE k \in -13..13 : LogBelow(m0, k) /\ (k = -13 \/ ~LogBelow(m0, k - 1))

LogOfMantissa(m) == FMulInt(Atanh(FDiv(FSub(m, One), FAdd(m, One))), 2)

LogSum(e, k, m0) ==
  FAdd(FAdd(FMul(Num(e), LnBase), FMul(Num(k), Ln2)),
       LogOfMantissa(IF k >= 0 THEN FDivInt(m0, 2 ^ k) ELSE FMulInt(m0, 2 ^ (-k))))

LogScaled(e, m0) == LogSum(e, LogHalvings(m0), m0)

LogPos(x) == LogScaled(LogExponent(x), LogMantissa(x, LogExponent(x)))

MathLog(x) ==
  IF IsNaN(x) THEN NaN
  ELSE IF IsZero(x) THEN Inf(-1)
  ELSE IF x.s = -1 THEN NaN
  ELSE IF x.k = "inf" THEN x
  ELSE LogPos(x)

---------------------------------------------------------------------------
(* The engine: calculateGreeksJS and its local helpers normCdf, normPdf.   *)

\* Depth of nested calls the JavaScript engine allows before it throws
\* RangeError ("Maximum call stack size exceeded").
MaxCallStack == 4

RangeErrorMessage == "Maximum call stack size exceeded"

b1 == Dec(1, 0, <<3193, 8153>>)

b2 == Dec(-1, 0, <<3565, 6378, 2000>>)

b3 == Dec(1, 1, <<7814, 7793, 7000>>)

b4 == Dec(-1, 1, <<8212, 5597, 8000>>)

b5 == Dec(1, 1, <<3302, 7442, 9000>>)

p == Dec(1, 0, <<2316, 4190>>)

c == Dec(1, 0, <<3989, 4228>>)

\* A variant of normCdfTail that adds the tail term to 1.
normCdfTailAdded(x, t) ==
  FAdd(One,
       FMul(FMul(FMul(c, MathExp(FDivInt(FMul(FNeg(x), x), 2))), t),
            FAdd(FMul(t, FAdd(FMul(t, FAdd(FMul(t, FAdd(FMul(t, b5), b4)), b3)), b2)), b1)))

\* The x >= 0 branch of normCdf, line 69, with t of line 68.
normCdfTail(x, t) ==
  FSub(One,
       FMul(FMul(FMul(c, MathExp(FDivInt(FMul(FNeg(x), x), 2))), t),
            FAdd(FMul(t, FAdd(FMul(t, FAdd(FMul(t, FAdd(FMul(t, b5), b4)), b3)), b2)), b1)))

normCdfPoly(x) == normCdfTail(x, FDiv(One, FAdd(One, FMul(p, x))))

\* normCdf entered at the given call depth: the value it returns and the
\* number of invocations made, or thrown when the call stack is exhausted.
\* return 1 - normCdf(-x), line 71, rec being what the inner call did.
Reflect(rec) ==
  [thrown |-> rec.thrown, v |-> FSub(One, rec.v), calls |-> rec.calls + 1]

\* A variant of normCdfAt that saturates beyond -7 and 7.
RECURSIVE normCdfAtWide(_, _)
normCdfAtWide(x, depth) ==
  IF depth > MaxCallStack THEN [thrown |-> TRUE, v |-> NaN, calls |-> 0]
  ELSE IF FLt(x, Num(-7)) THEN [thrown |-> FALSE, v |-> Zero, calls |-> 1]
  ELSE IF FGt(x, Num(7)) THEN [thrown |-> FALSE, v |-> One, calls |-> 1]
  ELSE IF FGe(x, Zero) THEN [thrown |-> FALSE, v |-> normCdfPoly(x), calls |-> 1]
  ELSE Reflect(normCdfAtWide(FNeg(x), depth + 1))

RECURSIVE normCdfAt(_, _)
normCdfAt(x, depth) ==
  IF depth > MaxCallStack THEN [thrown |-> TRUE, v |-> NaN, calls |-> 0]
  ELSE IF FLt(x, Num(-6)) THEN [thrown |-> FALSE, v |-> Zero, calls |-> 1]
  ELSE IF FGt(x, Num(6)) THEN [thrown |-> FALSE, v |-> One, calls |-> 1]
  ELSE IF FGe(x, Zero) THEN [thrown |-> FALSE, v |-> normCdfPoly(x), calls |-> 1]
  ELSE Reflect(normCdfAt(FNeg(x), depth + 1))

normCdf(x) == normCdfAt(x, 1)

normPdf(x) ==
  FDiv(MathExp(FMul(FMul(Dec(-1, 0, <<5000>>), x), x)), MathSqrt(FMulInt(MathPI, 2)))

GreekNames == {"price", "delta", "gamma", "theta", "vega", "rho"}

NoGreeks ==
  [price |-> NaN, delta |-> NaN, gamma |-> NaN, theta |-> NaN, vega |-> NaN, rho |-> NaN]

\* What a call of the engine does: it returns `result`, or throws `message`;
\* usedBS tells whether d1 and d2 were evaluated and cdfCalls how many times
\* normCdf was entered.
\* A variant of AtExpiry that prices a call as a put and a put as a call.
AtExpirySwapped(S, K, optionType) ==
  [price |-> IF optionType = "call" THEN MathMax(FSub(K, S), Zero)
                                    ELSE MathMax(FSub(S, K), Zero),
   delta |-> IF optionType = "call" THEN (IF FGt(S, K) THEN One ELSE Zero)
             ELSE IF FLt(S, K) THEN Num(-1) ELSE Zero,
   gamma |-> Zero, theta |-> Zero, vega |-> Zero, rho |-> Zero]

\* A variant of AtExpiry whose deltas count S = K as in the money.
AtExpiryAtm(S, K, optionType) ==
  [price |-> IF optionType = "call" THEN MathMax(FSub(S, K), Zero)
                                    ELSE MathMax(FSub(K, S), Zero),
   delta |-> IF optionType = "call" THEN (IF FGe(S, K) THEN One ELSE Zero)
             ELSE IF FLe(S, K) THEN Num(-1) ELSE Zero,
   gamma |-> Zero, theta |-> Zero, vega |-> Zero, rho |-> Zero]

\* T <= 0: intrinsic value only.
AtExpiry(S, K, optionType) ==
  [price |-> IF optionType = "call" THEN MathMax(FSub(S, K), Zero)
                                    ELSE MathMax(FSub(K, S), Zero),
   delta |-> IF optionType = "call" THEN (IF FGt(S, K) THEN One ELSE Zero)
             ELSE IF FLt(S, K) THEN Num(-1) ELSE Zero,
   gamma |-> Zero, theta |-> Zero, vega |-> Zero, rho |-> Zero]

\* sigma after line 48.
ClampSigma(sigma) == IF FLe(sigma, Zero) THEN Dec(1, 0, <<10>>) ELSE sigma

\* T > 0, sigma already clamped.  Each operator below stands for a stretch
\* of the function body and receives the constants the lines before it bound.

\* A variant of Greeks in which the vega of a put is that of the call negated.
GreeksSignedVega(S, K, T, r, sigma, isCall, sqrtT, disc, N_d1, N_d2, n_d1, Nn_d1, Nn_d2) ==
  [price |-> IF isCall
               THEN FSub(FMul(S, N_d1), FMul(FMul(K, disc), N_d2))
               ELSE FSub(FMul(FMul(K, disc), Nn_d2), FMul(S, Nn_d1)),
   delta |-> IF isCall THEN N_d1 ELSE FSub(N_d1, One),
   gamma |-> FDiv(n_d1, FMul(FMul(S, sigma), sqrtT)),
   theta |-> FDivInt(FSub(FDiv(FMul(FMul(FNeg(S), n_d1), sigma), FMulInt(sqrtT, 2)),
                          FMul(FMul(FMul(r, K), disc),
                               IF isCall THEN N_d2 ELSE Nn_d2)),
                     365),
   vega  |-> IF isCall THEN FDivInt(FMul(FMul(S, n_d1), sqrtT), 100)
                       ELSE FNeg(FDivInt(FMul(FMul(S, n_d1), sqrtT), 100)),
   rho   |-> IF isCall
               THEN FDivInt(FMul(FMul(FMul(K, T), disc), N_d2), 100)
               ELSE FDivInt(FMul(FMul(FMul(FNeg(K), T), disc), Nn_d2), 100)]

\* A variant of Greeks in which the delta of a put is taken from normCdf(d2).
GreeksPutDeltaFromD2(S, K, T, r, sigma, isCall, sqrtT, disc, N_d1, N_d2, n_d1, Nn_d1, Nn_d2) ==
  [price |-> IF isCall
               THEN FSub(FMul(S, N_d1), FMul(FMul(K, disc), N_d2))
               ELSE FSub(FMul(FMul(K, disc), Nn_d2), FMul(S, Nn_d1)),
   delta |-> IF isCall THEN N_d1 ELSE FSub(N_d2, One),
   gamma |-> FDiv(n_d1, FMul(FMul(S, sigma), sqrtT)),
   theta |-> FDivInt(FSub(FDiv(FMul(FMul(FNeg(S), n_d1), sigma), FMulInt(sqrtT, 2)),
                          FMul(FMul(FMul(r, K), disc),
                               IF isCall THEN N_d2 ELSE Nn_d2)),
                     365),
   vega  |-> FDivInt(FMul(FMul(S, n_d1), sqrtT), 100),
   rho   |-> IF isCall
               THEN FDivInt(FMul(FMul(FMul(K, T), disc), N_d2), 100)
               ELSE FDivInt(FMul(FMul(FMul(FNeg(K), T), disc), Nn_d2), 100)]

\* Lines 81-100: the result, from d1, d2, the values of Math.sqrt(T) and
\* Math.exp(-r * T), N_d1, N_d2, n_d1 and, for a put, normCdf(-d1), normCdf(-d2).
Greeks(S, K, T, r, sigma, isCall, sqrtT, disc, N_d1, N_d2, n_d1, Nn_d1, Nn_d2) ==
  [price |-> IF isCall
               THEN FSub(FMul(S, N_d1), FMul(FMul(K, disc), N_d2))
               ELSE FSub(FMul(FMul(K, disc), Nn_d2), FMul(S, Nn_d1)),
   delta |-> IF isCall THEN N_d1 ELSE FSub(N_d1, One),
   gamma |-> FDiv(n_d1, FMul(FMul(S, sigma), sqrtT)),
   theta |-> FDivInt(FSub(FDiv(FMul(FMul(FNeg(S), n_d1), sigma), FMulInt(sqrtT, 2)),
                          FMul(FMul(FMul(r, K), disc),
                               IF isCall THEN N_d2 ELSE Nn_d2)),
                     365),
   vega  |-> FDivInt(FMul(FMul(S, n_d1), sqrtT), 100),
   rho   |-> IF isCall
               THEN FDivInt(FMul(FMul(FMul(K, T), disc), N_d2), 100)
               ELSE FDivInt(FMul(FMul(FMul(FNeg(K), T), disc), Nn_d2), 100)]

\* The outcome, from what the calls of normCdf did: cd1 = normCdf(d1),
\* cd2 = normCdf(d2), cnd1 = normCdf(-d1), cnd2 = normCdf(-d2) (the last made
\* three times, the last two by a put only).
Assemble(S, K, T, r, sigma, isCall, sqrtT, d1, cd1, cd2, cnd1, cnd2) ==
  IF cd1.thrown \/ cd2.thrown \/ (~isCall /\ (cnd2.thrown \/ cnd1.thrown))
    THEN [thrown |-> TRUE, message |-> RangeErrorMessage, result |-> NoGreeks,
          usedBS |-> TRUE,
          cdfCalls |-> cd1.calls + (IF cd1.thrown THEN 0 ELSE cd2.calls)]
    ELSE [thrown |-> FALSE, message |-> "",
          result |-> Greeks(S, K, T, r, sigma, isCall, sqrtT,
                            MathExp(FMul(FNeg(r), T)),
                            cd1.v, cd2.v, normPdf(d1), cnd1.v, cnd2.v),
          usedBS |-> TRUE,
          cdfCalls |-> cd1.calls + cd2.calls
                       + (IF isCall THEN 0 ELSE 3 * cnd2.calls + cnd1.calls)]

\* Lines 77-78 and the calls of normCdf of lines 88-96.
WithD(S, K, T, r, sigma, isCall, sqrtT, d1, d2) ==
  Assemble(S, K, T, r, sigma, isCall, sqrtT, d1,
           normCdf(d1), normCdf(d2), normCdf(FNeg(d1)), normCdf(FNeg(d2)))

\* Line 52.
WithD1(S, K, T, r, sigma, isCall, sqrtT, d1) ==
  WithD(S, K, T, r, sigma, isCall, sqrtT, d1, FSub(d1, FMul(sigma, sqrtT)))

\* Line 51.
WithSqrtT(S, K, T, r, sigma, isCall, sqrtT) ==
  WithD1(S, K, T, r, sigma, isCall, sqrtT,
         FDiv(FAdd(MathLog(FDiv(S, K)),
                   FMul(FAdd(r, FMul(FMul(Half, sigma), sigma)), T)),
              FMul(sigma, sqrtT)))

BlackScholes(S, K, T, r, sigma, optionType) ==
  WithSqrtT(S, K, T, r, sigma, optionType = "call", MathSqrt(T))

\* A variant of calculateGreeksJS whose expiry test is T < 0.
calculateGreeksStrict(S, K, T, r, sigma, optionType) ==
  IF FLt(T, Zero)
    THEN [thrown |-> FALSE, message |-> "", result |-> AtExpiry(S, K, optionType),
          usedBS |-> FALSE, cdfCalls |-> 0]
    ELSE BlackScholes(S, K, T, r, ClampSigma(sigma), optionType)

calculateGreeksJS(S, K, T, r, sigma, optionType) ==
  IF FLe(T, Zero)
    THEN [thrown |-> FALSE, message |-> "", result |-> AtExpiry(S, K, optionType),
          usedBS |-> FALSE, cdfCalls |-> 0]
    ELSE BlackScholes(S, K, T, r, ClampSigma(sigma), optionType)

---------------------------------------------------------------------------
(* The Python reference black_scholes_greeks of pythonBackendCode, with    *)
(* norm.cdf and norm.pdf taken to be the normCdf and normPdf of the engine. *)
(* S, K, T, r and sigma are Python floats: a division by 0.0 and a power    *)
(* that overflows raise, while the numpy functions return inf or nan.       *)

\* if T <= 0: max(a, 0) keeps a unless 0 > a.
PyExpired(S, K, option_type) ==
  [price |-> IF option_type = "call"
               THEN (IF FGt(Zero, FSub(S, K)) THEN Zero ELSE FSub(S, K))
               ELSE (IF FGt(Zero, FSub(K, S)) THEN Zero ELSE FSub(K, S)),
   delta |-> IF option_type = "call" THEN (IF FGt(S, K) THEN One ELSE Zero)
             ELSE IF FLt(S, K) THEN Num(-1) ELSE Zero,
   gamma |-> Zero, theta |-> Zero, vega |-> Zero, rho |-> Zero]

\* The six values of the dictionary returned, from np.sqrt(T), np.exp(-r * T),
\* N_d1, N_d2, n_d1 and, for a put, norm.cdf(-d1) and norm.cdf(-d2).
PyGreeks(S, K, T, r, sigma, isCall, sqrtT, disc, N_d1, N_d2, n_d1, Nn_d1, Nn_d2) ==
  [price |-> IF isCall
               THEN FSub(FMul(S, N_d1), FMul(FMul(K, disc), N_d2))
               ELSE FSub(FMul(FMul(K, disc), Nn_d2), FMul(S, Nn_d1)),
   delta |-> IF isCall THEN N_d1 ELSE FSub(N_d1, One),
   gamma |-> FDiv(n_d1, FMul(FMul(S, sigma), sqrtT)),
   theta |-> FDivInt(FSub(FDiv(FMul(FMul(FNeg(S), n_d1), sigma), FMulInt(sqrtT, 2)),
                          FMul(FMul(FMul(r, K), disc),
                               IF isCall THEN N_d2 ELSE Nn_d2)),
                     365),
   vega  |-> FDivInt(FMul(FMul(S, n_d1), sqrtT), 100),
   rho   |-> IF isCall
               THEN FDivInt(FMul(FMul(FMul(K, T), disc), N_d2), 100)
               ELSE FDivInt(FMul(FMul(FMul(FNeg(K), T), disc), Nn_d2), 100)]

\* The outcome, from what the calls of norm.cdf did; an error of norm.cdf
\* leaves the function as it leaves the engine.
PyAssemble(S, K, T, r, sigma, isCall, sqrtT, d1, cd1, cd2, cnd1, cnd2) ==
  IF cd1.thrown \/ cd2.thrown \/ (~isCall /\ (cnd2.thrown \/ cnd1.thrown))
    THEN [thrown |-> TRUE, message |-> RangeErrorMessage, result |-> NoGreeks,
          usedBS |-> TRUE]
    ELSE [thrown |-> FALSE, message |-> "",
          result |-> PyGreeks(S, K, T, r, sigma, isCall, sqrtT,
                              MathExp(FMul(FNeg(r), T)),
                              cd1.v, cd2.v, normPdf(d1), cnd1.v, cnd2.v),
          usedBS |-> TRUE]

\* d2 = d1 - sigma * np.sqrt(T) and the calls of norm.cdf.
PyWithD1(S, K, T, r, sigma, isCall, sqrtT, d1) ==
  PyAssemble(S, K, T, r, sigma, isCall, sqrtT, d1,
             normCdf(d1), normCdf(FSub(d1, FMul(sigma, sqrtT))),
             normCdf(FNeg(d1)), normCdf(FNeg(FSub(d1, FMul(sigma, sqrtT)))))

\* d1, once S / K and sigma**2 are known not to raise.
PyPriced(S, K, T, r, sigma, isCall, sqrtT) ==
  PyWithD1(S, K, T, r, sigma, isCall, sqrtT,
           FDiv(FAdd(MathLog(FDiv(S, K)),
                     FMul(FAdd(r, FMul(Half, FMul(sigma, sigma))), T)),
                FMul(sigma, sqrtT)))

\* The function; sg is sigma after `if sigma <= 0: sigma = 0.001`.
black_scholes_greeks(S, K, T, r, sigma, option_type) ==
  IF FLe(T, Zero)
    THEN [thrown |-> FALSE, message |-> "", result |-> PyExpired(S, K, option_type),
          usedBS |-> FALSE]
    ELSE LET sg == IF FLe(sigma, Zero) THEN Dec(1, 0, <<10>>) ELSE sigma
         IN  IF IsZero(K)
               THEN [thrown |-> TRUE, message |-> "float division by zero",
                     result |-> NoGreeks, usedBS |-> TRUE]
             ELSE IF IsFinite(sg) /\ ~IsFinite(FMul(sg, sg))
               THEN [thrown |-> TRUE,
                     message |-> "(34, 'Numerical result out of range')",
                     result |-> NoGreeks, usedBS |-> TRUE]
             ELSE PyPriced(S, K, T, r, sg, option_type = "call", MathSqrt(T))

---------------------------------------------------------------------------
(* JSON values as the request body carries them, and their coercions.      *)

Undefined == [t |-> "undefined", n |-> Zero, s |-> ""]

Null == [t |-> "null", n |-> Zero, s |-> ""]

JNum(x) == [t |-> "number", n |-> x, s |-> ""]

JStr(str) == [t |-> "string", n |-> Zero, s |-> str]

\* !v is false.
Truthy(v) ==
  CASE v.t = "number" -> ~IsZero(v.n) /\ ~IsNaN(v.n)
    [] v.t = "string" -> v.s # ""
    [] OTHER -> FALSE

\* The number an arithmetic operator or a comparison with a number makes of v;
\* the only strings the model sends are the empty one and non-numeric ones.
ToNumber(v) ==
  CASE v.t = "number" -> v.n
    [] v.t = "null" -> Zero
    [] v.t = "string" -> IF v.s = "" THEN Zero ELSE NaN
    [] OTHER -> NaN

\* JSON.stringify of a number: NaN and the infinities become null.
JsonNull == [k |-> "null", s |-> 1, m |-> <<>>]

ToJSON(x) == IF IsFinite(x) THEN x ELSE JsonNull

FieldNames ==
  {"spotPrice", "strikePrice", "timeToExpiry", "riskFreeRate", "volatility", "optionType"}

\* const { spotPrice, ... } = body, for a body that is not null: a property
\* the body lacks, and any property of a primitive, is undefined.
Destructure(body) ==
  IF body.kind = "object" THEN body.fields ELSE [f \in FieldNames |-> Undefined]

---------------------------------------------------------------------------
(* The route handler POST.                                                 *)

MissingParameters == "Missing required parameters"

InternalPrefix == "Internal server error: "

SyntaxErrorMessage == "Unexpected token in JSON"

TypeErrorMessage == "Cannot destructure property 'spotPrice' of 'body' as it is null."

NoJson ==
  [price |-> JsonNull, delta |-> JsonNull, gamma |-> JsonNull,
   theta |-> JsonNull, vega |-> JsonNull, rho |-> JsonNull]

\* NextResponse.json({ error }, { status }).
ErrorResponse(status, error) ==
  [status |-> status, keys |-> {"error"}, error |-> error, greeks |-> NoJson]

\* NextResponse.json(result): status 200, the result object serialised.
ResultResponse(result) ==
  [status |-> 200, keys |-> DOMAIN result, error |-> "",
   greeks |-> [g \in DOMAIN result |-> ToJSON(result[g])]]

\* A variant of CatchResponse that sends zeroed Greeks along with the error.
CatchWithZeros(message) ==
  [status |-> 500, keys |-> GreekNames \cup {"error"},
   error |-> InternalPrefix \o message,
   greeks |-> [g \in GreekNames |-> Zero]]

\* The catch block, lines 33-37.
CatchResponse(message) == ErrorResponse(500, InternalPrefix \o message)

\* A variant of ValidationFails that does not look at optionType.
ValidationSkipsType(f) ==
  \/ ~Truthy(f.spotPrice)
  \/ ~Truthy(f.strikePrice)
  \/ f.timeToExpiry.t = "undefined"
  \/ f.riskFreeRate.t = "undefined"
  \/ ~Truthy(f.volatility)

\* A variant of ValidationFails that tests timeToExpiry with !, as it does
\* spotPrice.
ValidationFalsyTime(f) ==
  \/ ~Truthy(f.spotPrice)
  \/ ~Truthy(f.strikePrice)
  \/ ~Truthy(f.timeToExpiry)
  \/ f.riskFreeRate.t = "undefined"
  \/ ~Truthy(f.volatility)
  \/ ~Truthy(f.optionType)

\* The condition of the if of lines 12-19.
ValidationFails(f) ==
  \/ ~Truthy(f.spotPrice)
  \/ ~Truthy(f.strikePrice)
  \/ f.timeToExpiry.t = "undefined"
  \/ f.riskFreeRate.t = "undefined"
  \/ ~Truthy(f.volatility)
  \/ ~Truthy(f.optionType)

\* A variant of EngineArgs that passes timeToExpiry on in days.
EngineArgsInDays(f) ==
  [S |-> ToNumber(f.spotPrice), K |-> ToNumber(f.strikePrice),
   T |-> ToNumber(f.timeToExpiry),
   r |-> ToNumber(f.riskFreeRate), sigma |-> ToNumber(f.volatility),
   optionType |-> f.optionType.s]

\* The arguments of the call of line 29.
EngineArgs(f) ==
  [S |-> ToNumber(f.spotPrice), K |-> ToNumber(f.strikePrice),
   T |-> FDiv(ToNumber(f.timeToExpiry), Num(365)),
   r |-> ToNumber(f.riskFreeRate), sigma |-> ToNumber(f.volatility),
   optionType |-> f.optionType.s]

Engine(a) == calculateGreeksJS(a.S, a.K, a.T, a.r, a.sigma, a.optionType)

\* Lines 29-37: the engine was called with a and did out.
Respond(a, out) ==
  [response |-> IF out.thrown THEN CatchResponse(out.message)
                ELSE ResultResponse(out.result),
   calls |-> <<[args |-> a, out |-> out]>>]

\* Lines 24-29.
Compute(a) == Respond(a, Engine(a))

\* Lines 11-22, on the destructured fields f.
Validate(f) ==
  IF ValidationFails(f)
    THEN [response |-> ErrorResponse(400, MissingParameters), calls |-> <<>>]
    ELSE Compute(EngineArgs(f))

\* One run of POST on a request body: the response, and the engine calls made.
\* request.json() throws on a body that is no JSON, the destructuring of line 7
\* on null.
Handle(body) ==
  IF body.kind = "invalid"
    THEN [response |-> CatchResponse(SyntaxErrorMessage), calls |-> <<>>]
  ELSE IF body.kind = "null"
    THEN [response |-> CatchResponse(TypeErrorMessage), calls |-> <<>>]
  ELSE Validate(Destructure(body))

---------------------------------------------------------------------------
(* The two components that call the route: the one of part_000 and the one *)
(* of options-calculator.tsx.  Their data, and their state once mounted.   *)

\* The initial value of params, which is also what resetToDefaults sets and
\* the params of the first preset.
DefaultParams ==
  [spotPrice |-> Num(150), strikePrice |-> Num(150), timeToExpiry |-> Num(30),
   volatility |-> Dec(1, 0, <<2500>>), riskFreeRate |-> Dec(1, 0, <<500>>),
   optionType |-> "call"]

\* The params of the presets: "Apple Call Option" and "Tesla Put Option".
presetScenarios ==
  {DefaultParams,
   [spotPrice |-> Num(200), strikePrice |-> Num(200), timeToExpiry |-> Num(45),
    volatility |-> Dec(1, 0, <<4500>>), riskFreeRate |-> Dec(1, 0, <<500>>),
    optionType |-> "put"]}

\* The setup of the first historical example.
historicalExamples ==
  {[spotPrice |-> Num(40), strikePrice |-> Num(50), timeToExpiry |-> Num(14),
    volatility |-> Dec(1, 2, <<5000>>), optionType |-> "call"]}

\* { ...params, ...changes }.
Spread(params, changes) ==
  [k \in DOMAIN params |-> IF k \in DOMAIN changes THEN changes[k] ELSE params[k]]

\* The changes of the scenario "One Week Passes":
\* timeToExpiry: Math.max(1, params.timeToExpiry - 7).
TimeDecay(params) ==
  [timeToExpiry |-> MathMax(One, FSub(params.timeToExpiry, Num(7)))]

\* The greeks before any result: all zero, no error.  `of` holds the body of
\* the request whose result is displayed, if one is.
ZeroGreeks == [of |-> <<>>, error |-> ""]

\* activeTab = null.
NoTab == "null"

\* The tabs and the state each one shows its panel by.
TabFlag ==
  [learn |-> "showEducation", scenarios |-> "showScenarios", quiz |-> "showQuiz",
   historical |-> "showHistoricalExamples", charts |-> "showGreeksCharts"]

Tabs == DOMAIN TabFlag

Flags == {TabFlag[tab] : tab \in Tabs}

\* No parameter change made the request.
NoChange == [by |-> "", at |-> 0, chosen |-> <<>>]

\* A request to /api/calculate-greeks that is not answered yet: its body and
\* the parameter change that made it (the handler, the time of the change
\* and the params it chose).
Fetch(body, change) == [body |-> body, change |-> change]

\* The component of part_000 after its first render and the effects of lines
\* 171-173 and 650-652, each of which calls calculateGreeks.
Mounted ==
  [params |-> DefaultParams, greeks |-> ZeroGreeks, isLoading |-> TRUE, error |-> "",
   activeTab |-> NoTab, show |-> [f \in Flags |-> FALSE],
   now |-> 0, changes |-> 0, timers |-> <<>>, requests |-> 2,
   pending |-> <<Fetch(DefaultParams, NoChange), Fetch(DefaultParams, NoChange)>>]

\* A call of calculateGreeksAPI or runScenario in progress: its fetch, and the
\* greeks of the render it was called in.
Call(kind, body, greeks) == [kind |-> kind, body |-> body, greeks |-> greeks]

\* The component of options-calculator.tsx after its first render and the
\* effect of lines 270-272.
CalcMounted ==
  [params |-> DefaultParams, greeks |-> ZeroGreeks, isLoading |-> TRUE,
   scenarioResults |-> <<>>, issued |-> 1, unsuccessful |-> FALSE,
   calls |-> <<Call("calculateGreeksAPI", DefaultParams, ZeroGreeks)>>]

---------------------------------------------------------------------------
(* State.                                                                  *)

VARIABLES
  invocation,   \* the engine call under observation: its arguments and outcome
  log,          \* the engine calls made one after the other, oldest first
  request,      \* the body of the request POST handled last
  response,     \* the response POST gave to it
  engineCalls,  \* the engine calls POST made while handling it
  inflight,     \* the invocations of POST in progress at the same time
  cdf,          \* the call of normCdf under observation: its argument and outcome
  page,         \* the state of the component of part_000, its timers and requests
  calc          \* the state of the component of options-calculator.tsx

vars == <<invocation, log, request, response, engineCalls, inflight, cdf, page, calc>>

NoArgs ==
  [S |-> NaN, K |-> NaN, T |-> NaN, r |-> NaN, sigma |-> NaN, optionType |-> ""]

NoOutcome ==
  [thrown |-> FALSE, message |-> "", result |-> NoGreeks, usedBS |-> FALSE,
   cdfCalls |-> 0]

Idle == [called |-> FALSE, args |-> NoArgs, out |-> NoOutcome]

NoBody == [kind |-> "none", fields |-> [f \in FieldNames |-> Undefined]]

NoResponse == [status |-> 0, keys |-> {}, error |-> "", greeks |-> NoJson]

\* No call of normCdf is under observation.
NoCdf == [called |-> FALSE, x |-> NaN, out |-> [thrown |-> FALSE, v |-> NaN, calls |-> 0]]

\* Number of invocations of POST that may be in progress at the same time.
MaxRequests == 2

\* An invocation of POST: where it is (not entered, suspended in
\* await request.json(), returned), the body of its request, and what it
\* returned and called.
NotEntered == [pc |-> "idle", body |-> NoBody, response |-> NoResponse, calls |-> <<>>]

Init ==
  /\ invocation = Idle
  /\ log = <<>>
  /\ request = NoBody
  /\ response = NoResponse
  /\ engineCalls = <<>>
  /\ inflight = [i \in 1..MaxRequests |-> NotEntered]
  /\ cdf = NoCdf
  /\ page = Mounted
  /\ calc = CalcMounted

---------------------------------------------------------------------------
(* Inputs.                                                                 *)

\* Number of engine calls kept in the log.
MaxCalls == 3

Days30 == FDiv(Num(30), Num(365))

Pct5 == Dec(1, 0, <<500>>)

Vol25 == Dec(1, 0, <<2500>>)

Milli == Dec(1, 0, <<10>>)

\* 1e10 and 1e305: sigma * sigma and sigma * sqrt(T) both exceed
\* Number.MAX_VALUE.
Huge10 == Fin(1, NShl(<<100>>, 2 + FracLimbs))

Huge305 == Fin(1, NShl(<<10>>, 76 + FracLimbs))

\* 1e-12, as a time in years, and a spot 0.59 below a strike of 1e8: with
\* sigma = 0.001, d1 is about -5.9 and d2 differs from it by 1e-9.
Pico == Dec(1, 0, <<0, 0, 1>>)

Strike1e8 == Num(100000000)

SpotBelow1e8 == Dec(1, 99999999, <<4100>>)

EngineInputs ==
  [S : {Num(-10), Num(100), Num(150)}, K : {Num(100), Num(150)},
   T : {Num(-1), Zero, Days30, One}, r : {Zero, Pct5},
   sigma : {FNeg(Vol25), Zero, Milli, Vol25}, optionType : {"call", "put"}]
  \cup [S : {Num(100)}, K : {Num(100)}, T : {Huge10}, r : {Pct5},
        sigma : {Huge305}, optionType : {"call", "put"}]
  \cup [S : {Num(100)}, K : {Num(100)}, T : {Inf(1)}, r : {Pct5},
        sigma : {FNeg(Vol25), Zero}, optionType : {"call", "put"}]
  \cup [S : {SpotBelow1e8}, K : {Strike1e8}, T : {Pico}, r : {Zero},
        sigma : {Milli}, optionType : {"call", "put"}]
  \cup [S : {Num(100)}, K : {Num(100)}, T : {Num(1000)}, r : {Num(-1)},
        sigma : {Vol25}, optionType : {"call", "put"}]
  \cup [S : {Huge305}, K : {Huge305}, T : {Num(10000)}, r : {Zero},
        sigma : {Num(4)}, optionType : {"call", "put"}]
  \cup [S : {Num(1000)}, K : {Num(1000)}, T : {One}, r : {Dec(1, 0, <<1250>>)},
        sigma : {Half}, optionType : {"call", "put"}]
  \cup [S : {Num(100)}, K : {Zero}, T : {One}, r : {Pct5},
        sigma : {Vol25}, optionType : {"call", "put"}]
  \cup [S : {Num(100)}, K : {Num(100)}, T : {One}, r : {Pct5},
        sigma : {Fin(1, NShl(<<1>>, 50 + FracLimbs))}, optionType : {"call", "put"}]

RepeatInputs ==
  [S : {Num(100)}, K : {Num(150)}, T : {Zero, Days30}, r : {Pct5},
   sigma : {Zero, Vol25}, optionType : {"put"}]
  \cup [S : {Num(150)}, K : {Num(100)}, T : {Days30}, r : {Pct5},
        sigma : {Vol25}, optionType : {"call"}]

Bodies ==
  {[kind |-> k, fields |-> NoBody.fields] : k \in {"invalid", "null", "primitive"}}
  \cup
  {[kind |-> "object", fields |-> f] :
     f \in [spotPrice : {Undefined, Null, JNum(Zero), JStr(""), JNum(Num(100)),
                         JNum(Num(150)), JStr("abc")},
            strikePrice : {Undefined, JNum(Zero), JNum(Num(120))},
            timeToExpiry : {Undefined, Null, JNum(Zero), JNum(Num(30))},
            riskFreeRate : {Undefined, Null, JNum(Zero), JNum(Pct5)},
            volatility : {Undefined, JNum(Zero), JNum(Vol25)},
            optionType : {Undefined, JStr(""), JStr("call"), JStr("put"), JStr("Call")}]}

\* Arguments of normCdf: the multiples of 1/8 from -8 to 8, the values next to
\* -6 and 6 on either side, large ones, the infinities and NaN (the d1 of
\* line 51 when it is Infinity / Infinity).
CdfInputs ==
  {FDivInt(Num(n), 8) : n \in -64..64}
  \cup {FAdd(Num(6), Pico), FSub(Num(6), Pico), FAdd(Num(-6), Pico), FSub(Num(-6), Pico)}
  \cup {Num(1000), Num(-1000), Huge305, FNeg(Huge305), Inf(1), Inf(-1), NaN}

\* Bodies of requests handled at the same time: no JSON, null, one that is
\* rejected, an accepted call at expiry and an accepted put before it.
ConcurrentBodies ==
  {[kind |-> k, fields |-> NoBody.fields] : k \in {"invalid", "null"}}
  \cup
  {[kind |-> "object", fields |-> f] :
     f \in [spotPrice : {JNum(Num(150))}, strikePrice : {JNum(Num(120))},
            timeToExpiry : {JNum(Zero)},
            riskFreeRate : {JNum(Pct5)}, volatility : {JNum(Vol25)},
            optionType : {JStr(""), JStr("call")}]}
  \cup
  {[kind |-> "object", fields |-> f] :
     f \in [spotPrice : {JNum(Num(100))}, strikePrice : {JNum(Num(120))},
            timeToExpiry : {JNum(Num(30))},
            riskFreeRate : {JNum(Pct5)}, volatility : {JNum(Vol25)},
            optionType : {JStr("put")}]}

---------------------------------------------------------------------------
(* Actions.                                                                *)

\* A caller invokes the engine.
Invoke(a) ==
  /\ ~invocation.called
  /\ invocation' = [called |-> TRUE, args |-> a, out |-> Engine(a)]
  /\ UNCHANGED <<log, request, response, engineCalls, inflight, cdf, page, calc>>

\* The call is over; the function keeps nothing of it.
Return ==
  /\ invocation.called
  /\ invocation' = Idle
  /\ UNCHANGED <<log, request, response, engineCalls, inflight, cdf, page, calc>>

\* A variant of InvokeNext in which the clamped sigma outlives the call, as
\* it would in a variable of the module, and the next call computes with it.
InvokeNextLeaky(a) ==
  /\ Len(log) < MaxCalls
  /\ log' = Append(log,
                   [args |-> a,
                    out |-> Engine(IF log = <<>> THEN a
                                   ELSE [a EXCEPT !.sigma =
                                           ClampSigma(log[Len(log)].args.sigma)])])
  /\ UNCHANGED <<invocation, request, response, engineCalls, inflight, cdf, page, calc>>

\* A caller invokes the engine after the calls of the log.
InvokeNext(a) ==
  /\ Len(log) < MaxCalls
  /\ log' = Append(log, [args |-> a, out |-> Engine(a)])
  /\ UNCHANGED <<invocation, request, response, engineCalls, inflight, cdf, page, calc>>

\* POST handles a request with the given body.
POST(body) ==
  /\ request = NoBody
  /\ request' = body
  /\ \E h \in {Handle(body)} :
       /\ response' = h.response
       /\ engineCalls' = h.calls
  /\ UNCHANGED <<invocation, log, inflight, cdf, page, calc>>

\* The response is sent; the handler keeps nothing of the request.
Reply ==
  /\ request # NoBody
  /\ request' = NoBody
  /\ response' = NoResponse
  /\ engineCalls' = <<>>
  /\ UNCHANGED <<invocation, log, inflight, cdf, page, calc>>

\* A variant of AwaitedBody in which request.json() resolves to the body of
\* the request that arrived last, as it would if the request were kept in a
\* variable of the module.
AwaitedBodyOfLatest(hs, i) ==
  hs[CHOOSE j \in {k \in 1..MaxRequests : hs[k].pc = "json"} :
       \A k \in 1..MaxRequests : hs[k].pc = "json" => k <= j].body

\* What await request.json() of line 6 resolves to in invocation i: the body
\* of the request that invocation was called with.
AwaitedBody(hs, i) == hs[i].body

\* Lines 3-6: POST is called with a request and suspends in
\* await request.json(); other invocations may run meanwhile.
Accept(i, body) ==
  /\ inflight[i].pc = "idle"
  /\ inflight' = [inflight EXCEPT ![i] = [NotEntered EXCEPT !.pc = "json", !.body = body]]
  /\ UNCHANGED <<invocation, log, request, response, engineCalls, cdf, page, calc>>

\* Lines 6-37: the body arrives and the invocation runs to its return without
\* suspending again.
Resume(i) ==
  /\ inflight[i].pc = "json"
  /\ \E h \in {Handle(AwaitedBody(inflight, i))} :
       inflight' = [inflight EXCEPT ![i] = [pc |-> "done", body |-> inflight[i].body,
                                            response |-> h.response, calls |-> h.calls]]
  /\ UNCHANGED <<invocation, log, request, response, engineCalls, cdf, page, calc>>

\* The response of invocation i is sent and nothing of it remains.
Complete(i) ==
  /\ inflight[i].pc = "done"
  /\ inflight' = [inflight EXCEPT ![i] = NotEntered]
  /\ UNCHANGED <<invocation, log, request, response, engineCalls, cdf, page, calc>>

NextConcurrent ==
  \E i \in 1..MaxRequests :
    \/ \E body \in ConcurrentBodies : Accept(i, body)
    \/ Resume(i)
    \/ Complete(i)

\* The engine calls normCdf(x).
CallCdf(x) ==
  /\ ~cdf.called
  /\ cdf' = [called |-> TRUE, x |-> x, out |-> normCdf(x)]
  /\ UNCHANGED <<invocation, log, request, response, engineCalls, inflight, page, calc>>

\* normCdf has returned; it keeps nothing of the call.
ReturnCdf ==
  /\ cdf.called
  /\ cdf' = NoCdf
  /\ UNCHANGED <<invocation, log, request, response, engineCalls, inflight, page, calc>>

NextCdf == (\E x \in CdfInputs : CallCdf(x)) \/ ReturnCdf

NextEngine == (\E a \in EngineInputs : Invoke(a)) \/ Return

NextRepeat == \E a \in RepeatInputs : InvokeNext(a)

Next == (\E body \in Bodies : POST(body)) \/ Reply

SpecEngine == Init /\ [][NextEngine]_vars

SpecRepeat == Init /\ [][NextRepeat]_vars

Spec == Init /\ [][Next]_vars

SpecConcurrent == Init /\ [][NextConcurrent]_vars

SpecCdf == Init /\ [][NextCdf]_vars

---------------------------------------------------------------------------
(* Properties of the engine at and past expiry.                            *)

\* max(x, 0) of a finite x, as the contract writes the intrinsic value.
Max0(x) == IF FGt(x, Zero) THEN x ELSE Zero

\* The engine has been called with T <= 0.
CalledAtExpiry == invocation.called /\ FLe(invocation.args.T, Zero)

\* C1: for every S, K, r, sigma and every T <= 0, negative T included,
\* calculateGreeksJS returns price = max(S - K, 0) for a call and
\* price = max(K - S, 0) for a put, and evaluates neither d1 and d2 nor normCdf.
C1_IntrinsicPrice ==
  CalledAtExpiry =>
    LET a == invocation.args
        o == invocation.out
    IN  /\ ~o.thrown
        /\ a.optionType = "call" => o.result.price = Max0(FSub(a.S, a.K))
        /\ a.optionType = "put" => o.result.price = Max0(FSub(a.K, a.S))
        /\ ~o.usedBS
        /\ o.cdfCalls = 0

\* A put called one year past expiry with S = 100 and K = 150 was priced 50.
C1_Witness ==
  /\ invocation.called
  /\ invocation.args.T = Num(-1)
  /\ invocation.args.optionType = "put"
  /\ invocation.args.S = Num(100)
  /\ invocation.args.K = Num(150)
  /\ invocation.out.result.price = Num(50)

\* C2: for every T <= 0 the delta of a call is 1 when S > K and 0 otherwise,
\* the delta of a put is -1 when S < K and 0 otherwise; at S = K it is 0 for
\* both types.
C2_ExpiryDelta ==
  CalledAtExpiry =>
    LET a == invocation.args
        d == invocation.out.result.delta
    IN  /\ a.optionType = "call" => d = (IF FGt(a.S, a.K) THEN One ELSE Zero)
        /\ a.optionType = "put" => d = (IF FLt(a.S, a.K) THEN Num(-1) ELSE Zero)
        /\ a.S = a.K => d = Zero

\* An option called at expiry with S = K got delta 0.
C2_Witness ==
  /\ CalledAtExpiry
  /\ invocation.args.S = invocation.args.K
  /\ invocation.out.result.delta = Zero

\* C3: for every T <= 0 and both option types gamma, theta, vega and rho are
\* 0, whatever S, K, r and sigma are.
C3_ExpiryZeroGreeks ==
  CalledAtExpiry =>
    /\ ~invocation.out.thrown
    /\ \A g \in {"gamma", "theta", "vega", "rho"} : invocation.out.result[g] = Zero

\* A call in the money, called at T = 0 with r = 0.05 and sigma = 0.25, got
\* zero gamma and vega.
C3_Witness ==
  /\ invocation.called
  /\ invocation.args.T = Zero
  /\ invocation.args.S = Num(150)
  /\ invocation.args.K = Num(100)
  /\ invocation.args.r = Pct5
  /\ invocation.args.sigma = Vol25
  /\ invocation.args.optionType = "call"
  /\ invocation.out.result.gamma = Zero
  /\ invocation.out.result.vega = Zero

---------------------------------------------------------------------------
(* Properties of the route handler.                                        *)

\* Absent, null, 0 or the empty string.
Falsy(v) == v \in {Undefined, Null, JNum(Zero), JStr("")}

\* The rejection rule as the contract words it.
MustReject(f) ==
  \/ Falsy(f.spotPrice) \/ Falsy(f.strikePrice)
  \/ Falsy(f.volatility) \/ Falsy(f.optionType)
  \/ f.timeToExpiry = Undefined \/ f.riskFreeRate = Undefined

\* POST has handled a body that request.json() parsed and line 7 destructured.
Parsed == request.kind \in {"object", "primitive"}

Rejected400 ==
  /\ response.status = 400
  /\ response.keys = {"error"}
  /\ response.error = "Missing required parameters"

\* C4: POST answers 400 {error: "Missing required parameters"} if and only if
\* spotPrice, strikePrice, volatility or optionType is falsy or timeToExpiry or
\* riskFreeRate is undefined; a rejected request makes no call of
\* calculateGreeksJS, every other parsed request makes one.
C4_Validation ==
  Parsed =>
    /\ Rejected400 <=> MustReject(Destructure(request))
    /\ MustReject(Destructure(request)) => engineCalls = <<>>
    /\ ~MustReject(Destructure(request)) => Len(engineCalls) = 1

\* A request that lacks only timeToExpiry was rejected without a call of the
\* engine.
C4_Witness ==
  /\ request.kind = "object"
  /\ request.fields.timeToExpiry = Undefined
  /\ ~Falsy(request.fields.spotPrice) /\ ~Falsy(request.fields.strikePrice)
  /\ ~Falsy(request.fields.volatility) /\ ~Falsy(request.fields.optionType)
  /\ request.fields.riskFreeRate # Undefined
  /\ Rejected400
  /\ engineCalls = <<>>

\* C5: a body that is no JSON, or that parses to null, is reported as a
\* client error (a 4xx status), not as the internal error.
C5_MalformedIsClientError ==
  request.kind \in {"invalid", "null"} => response.status \in 400..499

\* C6: the body of every response carries either the six fields price, delta,
\* gamma, theta, vega and rho and no error, or an error and none of the six;
\* an exception thrown by the arithmetic gives status 500 with an error
\* message and no Greeks.
C6_AllOrNothing ==
  request # NoBody =>
    /\ \/ response.keys = GreekNames /\ response.status = 200
       \/ response.keys = {"error"} /\ response.error # ""
    /\ (engineCalls # <<>> /\ engineCalls[1].out.thrown) =>
         /\ response.status = 500
         /\ response.keys = {"error"}
         /\ response.error # ""

\* The engine threw while POST handled a request, and POST answered 500.
C6_Witness ==
  /\ engineCalls # <<>>
  /\ engineCalls[1].out.thrown
  /\ response.status = 500
  /\ response.keys = {"error"}

\* A number field of a request whose other fields are valid.
ValidNumber(v) == v.t = "number" /\ FGt(v.n, Zero)

\* timeToExpiry is 0 and the other fields are valid.
ExpiresToday ==
  /\ request.kind = "object"
  /\ request.fields.timeToExpiry = JNum(Zero)
  /\ ValidNumber(request.fields.spotPrice)
  /\ ValidNumber(request.fields.strikePrice)
  /\ ValidNumber(request.fields.volatility)
  /\ request.fields.riskFreeRate.t = "number"
  /\ request.fields.optionType \in {JStr("call"), JStr("put")}

\* C8: a request with timeToExpiry = 0 and the other fields valid is not
\* rejected: the engine is called with T = 0 and POST answers 200 with the
\* intrinsic value and zero gamma, theta, vega and rho.
C8_ZeroDaysAccepted ==
  ExpiresToday =>
    LET S == request.fields.spotPrice.n
        K == request.fields.strikePrice.n
        isCall == request.fields.optionType = JStr("call")
    IN  /\ response.status = 200
        /\ response.keys = GreekNames
        /\ Len(engineCalls) = 1
        /\ engineCalls[1].args.T = Zero
        /\ response.greeks.price = (IF isCall THEN Max0(FSub(S, K)) ELSE Max0(FSub(K, S)))
        /\ response.greeks.delta =
             (IF isCall THEN (IF FGt(S, K) THEN One ELSE Zero)
                        ELSE (IF FLt(S, K) THEN Num(-1) ELSE Zero))
        /\ \A g \in {"gamma", "theta", "vega", "rho"} : response.greeks[g] = Zero

\* A call with spotPrice 150, strikePrice 120 and timeToExpiry 0 was answered
\* 200 with price 30.
C8_Witness ==
  /\ ExpiresToday
  /\ request.fields.spotPrice = JNum(Num(150))
  /\ request.fields.optionType = JStr("call")
  /\ response.status = 200
  /\ response.greeks.price = Num(30)

---------------------------------------------------------------------------
(* Properties of the engine before expiry.                                 *)

\* The engine has been called with S > 0, K > 0, T > 0 and sigma <= 0.
CalledUnclamped ==
  /\ invocation.called
  /\ FGt(invocation.args.S, Zero)
  /\ FGt(invocation.args.K, Zero)
  /\ FGt(invocation.args.T, Zero)
  /\ FLe(invocation.args.sigma, Zero)

\* C7: for T > 0 and any sigma <= 0 calculateGreeksJS does not throw, and
\* returns what it returns for sigma = 0.001 with the same S, K, T, r and type
\* (stated here for S > 0 and K > 0 only).
C7_ClampedNeverThrows ==
  CalledUnclamped =>
    /\ ~invocation.out.thrown
    /\ invocation.out = Engine([invocation.args EXCEPT !.sigma = Milli])

\* C7, the relational half alone: for T > 0 and any sigma <= 0, whatever S and
\* K are, the call does what the call with sigma = 0.001 does, a throw included.
C7_SameAsClamped ==
  (invocation.called /\ FGt(invocation.args.T, Zero)
                     /\ FLe(invocation.args.sigma, Zero)) =>
    invocation.out = Engine([invocation.args EXCEPT !.sigma = Milli])

\* The engine priced an option with T > 0 and sigma = 0 through the formulas.
C7_Witness ==
  /\ CalledUnclamped
  /\ invocation.args.sigma = Zero
  /\ ~invocation.out.thrown
  /\ invocation.out.usedBS

\* C9: for every S > 0, K > 0, T >= 0, sigma >= 0 and type call or put,
\* calculateGreeksJS returns a result of six fields and does not throw.
C9_Total ==
  (/\ invocation.called
   /\ FGt(invocation.args.S, Zero)
   /\ FGt(invocation.args.K, Zero)
   /\ FGe(invocation.args.T, Zero)
   /\ FGe(invocation.args.sigma, Zero)
   /\ invocation.args.optionType \in {"call", "put"}) =>
    /\ ~invocation.out.thrown
    /\ DOMAIN invocation.out.result = GreekNames

---------------------------------------------------------------------------
(* Concurrent invocations of POST.                                         *)

---------------------------------------------------------------------------
(* Bounds and signs of the result.                                         *)

\* The engine has been called with S > 0, K > 0, T >= 0, sigma >= 0 and a
\* type of call or put.
CalledValid ==
  /\ invocation.called
  /\ FGt(invocation.args.S, Zero)
  /\ FGt(invocation.args.K, Zero)
  /\ FGe(invocation.args.T, Zero)
  /\ FGe(invocation.args.sigma, Zero)
  /\ invocation.args.optionType \in {"call", "put"}

\* It has, and it returned a result.
ReturnedValid == CalledValid /\ ~invocation.out.thrown

\* C12: for valid inputs with T > 0 the delta returned for a call, which is
\* normCdf(d1), lies in [0, 1] and the delta returned for a put in [-1, 0].
C12_DeltaBounds ==
  (ReturnedValid /\ FGt(invocation.args.T, Zero)) =>
    IF invocation.args.optionType = "call"
      THEN /\ FGe(invocation.out.result.delta, Zero)
           /\ FLe(invocation.out.result.delta, One)
      ELSE /\ FGe(invocation.out.result.delta, Num(-1))
           /\ FLe(invocation.out.result.delta, Zero)

\* A put with T > 0 got a delta strictly between -1 and -1/2: d1 was negative
\* and normCdf went through the reflection and the polynomial.
C12_Witness ==
  /\ ReturnedValid
  /\ FGt(invocation.args.T, Zero)
  /\ invocation.args.optionType = "put"
  /\ FGt(invocation.out.result.delta, Num(-1))
  /\ FLt(invocation.out.result.delta, Dec(-1, 0, <<5000>>))

\* C13: for every valid input, at expiry and before it, the price returned is
\* >= 0.
C13_PriceNonNegative ==
  ReturnedValid => FGe(invocation.out.result.price, Zero)

\* C14: for every valid input, at expiry and before it, gamma >= 0 and
\* vega >= 0, and rho >= 0 for a call and rho <= 0 for a put.
C14_Signs ==
  ReturnedValid =>
    /\ FGe(invocation.out.result.gamma, Zero)
    /\ FGe(invocation.out.result.vega, Zero)
    /\ IF invocation.args.optionType = "call"
         THEN FGe(invocation.out.result.rho, Zero)
         ELSE FLe(invocation.out.result.rho, Zero)

---------------------------------------------------------------------------
(* Properties of normCdf.                                                  *)

\* C15: normCdf returns exactly 0 for every x < -6 and exactly 1 for every
\* x > 6, at once, and goes through the reflection of line 71 or the polynomial
\* of line 69 only for -6 <= x <= 6 (x a number, not NaN).
C15_Saturates ==
  (cdf.called /\ ~IsNaN(cdf.x)) =>
    /\ FLt(cdf.x, Num(-6)) => cdf.out = [thrown |-> FALSE, v |-> Zero, calls |-> 1]
    /\ FGt(cdf.x, Num(6)) => cdf.out = [thrown |-> FALSE, v |-> One, calls |-> 1]
    /\ cdf.out.calls > 1 => (FGe(cdf.x, Num(-6)) /\ FLt(cdf.x, Zero))
    /\ (FGe(cdf.x, Zero) /\ FLe(cdf.x, Num(6))) => cdf.out.v = normCdfPoly(cdf.x)

\* normCdf returned 1 for the x next above 6, where the polynomial gives less.
C15_Witness ==
  /\ cdf.called
  /\ cdf.x = FAdd(Num(6), Pico)
  /\ cdf.out.v = One
  /\ FLt(normCdfPoly(cdf.x), One)

\* C16: normCdf(x) + normCdf(-x) = 1 for every finite x, x = 0 and |x| > 6
\* included.
C16_Symmetric ==
  (cdf.called /\ IsFinite(cdf.x)) =>
    /\ ~cdf.out.thrown
    /\ FAdd(cdf.out.v, normCdf(FNeg(cdf.x)).v) = One

\* C16 without x = 0: for every finite x other than 0, one of normCdf(x) and
\* normCdf(-x) is one minus the other, and their sum is 1.
C16_SymmetricOffZero ==
  (cdf.called /\ IsFinite(cdf.x) /\ ~IsZero(cdf.x)) =>
    FAdd(cdf.out.v, normCdf(FNeg(cdf.x)).v) = One

---------------------------------------------------------------------------
(* Relations between the call and the put of the same inputs.              *)

\* |x| <= tol.
Within(x, tol) == FLe(x, tol) /\ FGe(x, FNeg(tol))

\* The engine has returned the result of a call option with valid inputs and
\* T > 0.
ReturnedCall ==
  /\ ReturnedValid
  /\ FGt(invocation.args.T, Zero)
  /\ invocation.args.optionType = "call"

\* What the engine does for the put with the inputs of the call observed.
PutOfCall == Engine([invocation.args EXCEPT !.optionType = "put"])

\* S - K exp(-rT) for the inputs of the call observed.
Forward ==
  FSub(invocation.args.S,
       FMul(invocation.args.K,
            MathExp(FMul(FNeg(invocation.args.r), invocation.args.T))))

\* C17: for identical S, K, T > 0, r and sigma, the call price less the put
\* price is S - K exp(-rT) within 1e-6.
C17_Parity ==
  ReturnedCall =>
    \E put \in {PutOfCall} :
      /\ ~put.thrown
      /\ Within(FSub(FSub(invocation.out.result.price, put.result.price), Forward),
                Dec(1, 0, <<0, 100>>))

\* C18: for T > 0 and identical S, K, T, r and sigma, the call and the put
\* have equal gamma and equal vega.
C18_SameGammaVega ==
  ReturnedCall =>
    \E put \in {PutOfCall} :
      /\ ~put.thrown
      /\ put.result.gamma = invocation.out.result.gamma
      /\ put.result.vega = invocation.out.result.vega

\* A call whose gamma and vega are positive and whose put has another price.
C18_Witness ==
  /\ ReturnedCall
  /\ FGt(invocation.out.result.gamma, Zero)
  /\ FGt(invocation.out.result.vega, Zero)
  /\ PutOfCall.result.price # invocation.out.result.price
  /\ PutOfCall.result.vega = invocation.out.result.vega

---------------------------------------------------------------------------
(* The boundary between POST and the engine.                               *)

\* POST has handled a request that the validation of lines 12-19 lets pass.
Accepted == Parsed /\ ~MustReject(request.fields)

\* C19: for every accepted request the engine is called exactly once, with
\* T = timeToExpiry / 365 and with spotPrice, strikePrice, riskFreeRate,
\* volatility and optionType as they came (the numbers being those that the
\* arithmetic of the engine takes the values for).
C19_DaysToYears ==
  Accepted =>
    /\ Len(engineCalls) = 1
    /\ engineCalls[1].args.T = FDiv(ToNumber(request.fields.timeToExpiry), Num(365))
    /\ engineCalls[1].args.S = ToNumber(request.fields.spotPrice)
    /\ engineCalls[1].args.K = ToNumber(request.fields.strikePrice)
    /\ engineCalls[1].args.r = ToNumber(request.fields.riskFreeRate)
    /\ engineCalls[1].args.sigma = ToNumber(request.fields.volatility)
    /\ engineCalls[1].args.optionType = request.fields.optionType.s

\* A request with timeToExpiry 30 was accepted and the engine called with
\* T = 30 / 365, S = 100 and K = 120.
C19_Witness ==
  /\ Accepted
  /\ request.fields.timeToExpiry = JNum(Num(30))
  /\ request.fields.spotPrice = JNum(Num(100))
  /\ Len(engineCalls) = 1
  /\ engineCalls[1].args.T = Days30
  /\ engineCalls[1].args.S = Num(100)
  /\ engineCalls[1].args.K = Num(120)
  /\ response.status = 200

---------------------------------------------------------------------------
(* The engine and the Python reference.                                    *)

\* What black_scholes_greeks does with the arguments of the call.
Reference ==
  black_scholes_greeks(invocation.args.S, invocation.args.K, invocation.args.T,
                       invocation.args.r, invocation.args.sigma,
                       invocation.args.optionType)

\* The reference does what the engine did: it takes the same branch, returns
\* when the engine returned, and returns the same six values.
SameAsReference(py) ==
  /\ py.thrown = invocation.out.thrown
  /\ py.usedBS = invocation.out.usedBS
  /\ py.result = invocation.out.result

\* C20: with the same normal CDF and PDF, for every input (S, K, T, r, sigma,
\* type) the engine and black_scholes_greeks take the same branch (T <= 0,
\* sigma <= 0 clamp, call or put) and return the same six values.
C20_SameAsReference == invocation.called => SameAsReference(Reference)

\* S / K or sigma**2 raises in Python: T > 0 and either K = 0 or the square of
\* the clamped sigma is beyond the largest float.
PyArithmeticError ==
  /\ ~FLe(invocation.args.T, Zero)
  /\ \/ IsZero(invocation.args.K)
     \/ /\ FGt(invocation.args.sigma, Zero)
        /\ IsFinite(invocation.args.sigma)
        /\ ~IsFinite(FMul(invocation.args.sigma, invocation.args.sigma))

\* Everywhere else the two agree.
C20_SameWhereNothingRaises ==
  (invocation.called /\ ~PyArithmeticError) => SameAsReference(Reference)

\* The engine returned for a volatility of 1e200 (or a strike of 0) and T > 0.
C20_EngineReturnedWhereReferenceRaises ==
  invocation.called /\ PyArithmeticError /\ ~invocation.out.thrown

---------------------------------------------------------------------------
(* Termination of normCdf.                                                 *)

\* C21: normCdf returns for every argument of type number it can be given,
\* having been entered at most twice (the call and one reflection).
C21_Terminates ==
  cdf.called => (~cdf.out.thrown /\ cdf.out.calls <= 2)

\* C21 for the arguments other than NaN: the reflection is entered only for
\* x < 0 and its inner call does not reflect again.
C21_TerminatesOffNaN ==
  (cdf.called /\ ~IsNaN(cdf.x)) =>
    /\ ~cdf.out.thrown
    /\ cdf.out.calls = (IF FGe(cdf.x, Num(-6)) /\ FLt(cdf.x, Zero) THEN 2 ELSE 1)

\* normCdf(NaN) exhausted the call stack.
C21_NaNOverflows == cdf.called /\ IsNaN(cdf.x) /\ cdf.out.thrown

---------------------------------------------------------------------------
(* The option types that are priced.                                       *)

\* POST has handled a parsed request whose optionType is neither "call" nor
\* "put".
UnknownType ==
  Parsed /\ Destructure(request).optionType \notin {JStr("call"), JStr("put")}

\* The response a put with the numbers of the request is answered with.
PutResponse ==
  ResultResponse(Engine([EngineArgs(Destructure(request))
                           EXCEPT !.optionType = "put"]).result)

\* The response carries the put result for the numbers of the request.
AnsweredAsPut == response.status = 200 /\ response = PutResponse

\* C22: a request whose optionType is neither "call" nor "put" is not answered
\* with the result of a put.
C22_OnlyEnumPriced == UnknownType => ~AnsweredAsPut

\* A request of an unknown type is answered with the put result only when the
\* type is a non-empty string or a non-zero number, which the validation of
\* lines 12-19 lets pass.
C22_RejectedWhenFalsy ==
  (UnknownType /\ Falsy(Destructure(request).optionType)) => Rejected400

\* optionType "Call", spot 100 and strike 120 at expiry: answered with the
\* price 20 and the delta -1 of the put.
C22_CallCapitalisedPricedAsPut ==
  /\ UnknownType
  /\ request.fields.optionType = JStr("Call")
  /\ request.fields.timeToExpiry = JNum(Zero)
  /\ response.status = 200
  /\ response.greeks.price = ToJSON(Num(20))
  /\ response.greeks.delta = ToJSON(Num(-1))

---------------------------------------------------------------------------
(* The deltas of the call and the put of the same inputs.                  *)

\* The engine has returned the result of a call option with T > 0.
ReturnedCallBeforeExpiry ==
  /\ invocation.called
  /\ ~invocation.out.thrown
  /\ FGt(invocation.args.T, Zero)
  /\ invocation.args.optionType = "call"

\* C23: for T > 0 and the same S, K, T, r and sigma, the delta the engine
\* returns for the call minus the delta it returns for the put is exactly 1.
C23_DeltaDifference ==
  ReturnedCallBeforeExpiry =>
    /\ ~PutOfCall.thrown
    /\ FSub(invocation.out.result.delta, PutOfCall.result.delta) = One

\* A call whose delta is strictly between 0 and 1 and differs from
\* normCdf(d2), the put of the same inputs having a negative delta.
C23_Witness ==
  /\ ReturnedCallBeforeExpiry
  /\ FGt(invocation.out.result.delta, Zero)
  /\ FLt(invocation.out.result.delta, One)
  /\ FLt(PutOfCall.result.delta, Zero)
  /\ PutOfCall.result.delta = FSub(invocation.out.result.delta, One)

---------------------------------------------------------------------------
(* The component of part_000.  A handler runs in the render that made it:   *)
(* it reads the params of that render, whatever it has set meanwhile.       *)

\* The delay of the setTimeout of updateParam, in milliseconds.
DebounceMs == 300

\* Parameter changes, requests and milliseconds the model follows.
MaxChanges == 2

MaxSent == 4

MaxTime == 400

\* The values updateParam is called with.
ParamUpdates == {<<"spotPrice", Num(160)>>, <<"optionType", "put">>}

\* What the awaited fetch and response.json() of a request come to: a result
\* without error, or anything that ends in the catch block.
Outcomes == {"ok", "failed"}

ApiError == "API error: 500"

\* The i-th element of a sequence removed.
Without(seq, i) == SubSeq(seq, 1, i - 1) \o SubSeq(seq, i + 1, Len(seq))

\* calculateGreeks up to its fetch, lines 100-110, called in a render whose
\* params are body; it takes no parameter.
calculateGreeks(pg, body, change) ==
  [pg EXCEPT !.isLoading = TRUE, !.error = "",
             !.requests = @ + 1, !.pending = Append(@, Fetch(body, change))]

\* The change a handler makes now.
Change(by, chosen) == [by |-> by, at |-> page.now, chosen |-> <<chosen>>]

\* setParams(chosen).
Changed(pg, chosen) == [pg EXCEPT !.params = chosen, !.changes = @ + 1]

\* A further change, and the request it makes, are within the bounds.
Room(changes) ==
  /\ page.changes + changes <= MaxChanges
  /\ page.requests + Len(page.timers) < MaxSent

\* setTimeout(() => calculateGreeks(), 300) in a render whose params are
\* body, for the change given.
Timer(body, change) == [due |-> page.now + DebounceMs, body |-> body, change |-> change]

\* A variant of updateParam that clears the timers set before.
updateParamCancelling(key, value) ==
  /\ Room(1)
  /\ page' = [Changed(page, [page.params EXCEPT ![key] = value])
                EXCEPT !.timers =
                  <<Timer(page.params,
                          Change("updateParam", [page.params EXCEPT ![key] = value]))>>]
  /\ UNCHANGED <<invocation, log, request, response, engineCalls, inflight, cdf, calc>>

\* Lines 164-169.
updateParam(key, value) ==
  /\ Room(1)
  /\ page' = [Changed(page, [page.params EXCEPT ![key] = value])
                EXCEPT !.timers =
                  Append(@, Timer(page.params,
                                  Change("updateParam", [page.params EXCEPT ![key] = value])))]
  /\ UNCHANGED <<invocation, log, request, response, engineCalls, inflight, cdf, calc>>

\* The callback of line 168 runs: timers that are due run oldest first.
TimerFires ==
  /\ page.timers # <<>>
  /\ Head(page.timers).due <= page.now
  /\ page' = calculateGreeks([page EXCEPT !.timers = Tail(@)],
                             Head(page.timers).body, Head(page.timers).change)
  /\ UNCHANGED <<invocation, log, request, response, engineCalls, inflight, cdf, calc>>

\* d milliseconds pass, no timer being overdue.
Elapse(d) ==
  /\ page.now + d <= MaxTime
  /\ \A i \in DOMAIN page.timers : page.now + d <= page.timers[i].due
  /\ page' = [page EXCEPT !.now = @ + d]
  /\ UNCHANGED <<invocation, log, request, response, engineCalls, inflight, cdf, calc>>

\* Lines 527-530.
loadPreset(preset) ==
  /\ Room(1)
  /\ page' = calculateGreeks(Changed(page, preset), page.params,
                             Change("loadPreset", preset))
  /\ UNCHANGED <<invocation, log, request, response, engineCalls, inflight, cdf, calc>>

\* Lines 532-543.
resetToDefaults ==
  /\ Room(1)
  /\ page' = calculateGreeks(Changed(page, DefaultParams), page.params,
                             Change("resetToDefaults", DefaultParams))
  /\ UNCHANGED <<invocation, log, request, response, engineCalls, inflight, cdf, calc>>

\* The button "Load Example Parameters" of the panel of historical examples,
\* lines 1377-1381.
LoadExample(setup) ==
  /\ page.show["showHistoricalExamples"]
  /\ Room(1)
  /\ page' = calculateGreeks(Changed(page, Spread(page.params, setup)), page.params,
                             Change("LoadExample", Spread(page.params, setup)))
  /\ UNCHANGED <<invocation, log, request, response, engineCalls, inflight, cdf, calc>>

\* The button "Retry Calculation", shown with the error.
Retry ==
  /\ page.error # ""
  /\ Room(0)
  /\ page' = calculateGreeks(page, page.params, NoChange)
  /\ UNCHANGED <<invocation, log, request, response, engineCalls, inflight, cdf, calc>>

\* The rest of calculateGreeks, lines 112-138, once request i is answered.
Settle(i, outcome) ==
  /\ i \in DOMAIN page.pending
  /\ page' = [page EXCEPT
                !.pending = Without(@, i),
                !.greeks = IF outcome = "ok"
                             THEN [of |-> <<page.pending[i].body>>, error |-> ""]
                             ELSE [of |-> <<>>, error |-> ApiError],
                !.error = IF outcome = "ok" THEN @ ELSE ApiError,
                !.isLoading = FALSE]
  /\ UNCHANGED <<invocation, log, request, response, engineCalls, inflight, cdf, calc>>

\* A variant of closeAllTabs that leaves activeTab as it is.
closeAllTabsKeepingActive(pg) == [pg EXCEPT !.show = [f \in Flags |-> FALSE]]

\* Lines 155-162.
closeAllTabs(pg) ==
  [pg EXCEPT !.activeTab = NoTab, !.show = [f \in Flags |-> FALSE]]

\* The onClick of the button of a tab, lines 872-971.
ClickTab(tab) ==
  /\ page' = IF page.activeTab = tab
               THEN [page EXCEPT !.activeTab = NoTab, !.show[TabFlag[tab]] = FALSE]
               ELSE [page EXCEPT !.activeTab = tab,
                                 !.show = [f \in Flags |-> f = TabFlag[tab]]]
  /\ UNCHANGED <<invocation, log, request, response, engineCalls, inflight, cdf, calc>>

\* The close button of the panel of a tab, which is there when the panel is.
ClosePanel(tab) ==
  /\ page.show[TabFlag[tab]]
  /\ page' = closeAllTabs(page)
  /\ UNCHANGED <<invocation, log, request, response, engineCalls, inflight, cdf, calc>>

\* Lines 142-149, the listener of the first render: Enter calls the
\* calculateGreeks of that render, Escape closeAllTabs.
handleKeyPress(key) ==
  /\ \/ key = "Enter" /\ Room(0)
        /\ page' = calculateGreeks(page, Mounted.params, NoChange)
     \/ key = "Escape" /\ page.activeTab # NoTab
        /\ page' = closeAllTabs(page)
  /\ UNCHANGED <<invocation, log, request, response, engineCalls, inflight, cdf, calc>>

NextPart000 ==
  \/ \E u \in ParamUpdates : updateParam(u[1], u[2])
  \/ TimerFires
  \/ \E d \in {100, 300} : Elapse(d)
  \/ \E preset \in presetScenarios : loadPreset(preset)
  \/ resetToDefaults
  \/ \E setup \in historicalExamples : LoadExample(setup)
  \/ Retry
  \/ \E i \in 1..MaxSent, outcome \in Outcomes : Settle(i, outcome)
  \/ \E tab \in Tabs : ClickTab(tab) \/ ClosePanel(tab)
  \/ \E key \in {"Enter", "Escape"} : handleKeyPress(key)

SpecPart000 == Init /\ [][NextPart000]_vars

\* The tab buttons, the close buttons and the keys, with the requests the
\* component has made.
NextPanels ==
  \/ \E tab \in Tabs : ClickTab(tab) \/ ClosePanel(tab)
  \/ \E key \in {"Enter", "Escape"} : handleKeyPress(key)
  \/ \E i \in 1..MaxSent, outcome \in Outcomes : Settle(i, outcome)
  \/ Retry

SpecPanels == Init /\ [][NextPanels]_vars

---------------------------------------------------------------------------
(* Recalculation after a parameter change in the component of part_000.    *)

\* The changes by updateParam whose timer is set or whose request is made and
\* not answered yet.
UpdatesUnderWay ==
  {page.timers[i].change : i \in DOMAIN page.timers}
  \cup {page.pending[i].change :
          i \in {j \in DOMAIN page.pending : page.pending[j].change.by = "updateParam"}}

\* Two calls of updateParam less than 300 ms apart.
InOneBurst(one, other) ==
  /\ one # other
  /\ one.at < other.at + DebounceMs
  /\ other.at < one.at + DebounceMs

\* C24: of several updateParam calls made within 300 ms of each other only
\* one results in a request: no request is made for a call while another call
\* of the same burst has its timer set or its request made.
C24_Debounced ==
  \A i \in DOMAIN page.pending :
    page.pending[i].change.by = "updateParam" =>
      \A other \in UpdatesUnderWay : ~InOneBurst(page.pending[i].change, other)

\* Two requests are awaited, made for two calls of updateParam 100 ms apart.
C24_TwoRequestsOfOneBurst ==
  \E i, j \in DOMAIN page.pending :
    /\ page.pending[i].change.by = "updateParam"
    /\ page.pending[j].change.by = "updateParam"
    /\ page.pending[j].change.at = page.pending[i].change.at + 100

\* C25: every request made for a parameter change (by updateParam, loadPreset,
\* resetToDefaults or Load Example Parameters) carries the params the change
\* chose.
C25_SendsChosen ==
  \A i \in DOMAIN page.pending :
    page.pending[i].change # NoChange =>
      page.pending[i].change.chosen = <<page.pending[i].body>>

\* What the requests carry instead: the params of the render the handler ran
\* in, which differ from the chosen ones in what the change set.
C25_SendsPrevious ==
  \A i \in DOMAIN page.pending :
    \A preset \in presetScenarios :
      (page.pending[i].change.by = "loadPreset"
       /\ page.pending[i].change.chosen = <<preset>>
       /\ page.pending[i].change.at = 0 /\ page.changes = 1)
        => page.pending[i].body = DefaultParams

---------------------------------------------------------------------------
(* The panels of the component of part_000.                                *)

\* The flags that are true.
Shown == {f \in Flags : page.show[f]}

\* C29: after any sequence of clicks on tab buttons and close buttons and of
\* Escape key presses at most one of showEducation, showScenarios, showQuiz,
\* showHistoricalExamples and showGreeksCharts is true, the one activeTab
\* names; all are false exactly when activeTab is null.
C29_OnePanel ==
  /\ Cardinality(Shown) <= 1
  /\ page.activeTab = NoTab <=> Shown = {}
  /\ page.activeTab # NoTab => Shown = {TabFlag[page.activeTab]}

\* The quiz is open, alone.
C29_Witness ==
  /\ page.activeTab = "quiz"
  /\ page.show["showQuiz"]
  /\ Shown = {"showQuiz"}

---------------------------------------------------------------------------
(* The component of options-calculator.tsx.                                *)

\* Calls of calculateGreeksAPI and runScenario the model follows.
MaxCalcCalls == 3

\* The values updateParam is called with.
CalcUpdates == {<<"spotPrice", Num(160)>>, <<"optionType", "put">>}

\* What the fetch of a call comes to: a result without error, a JSON body
\* with an error property, or a rejection, a status that is not ok or a body
\* that is no JSON.
CalcOutcomes == {"ok", "error", "thrown"}

MissingError == "Missing required parameters"

FailedError == "Calculation failed: API error: 500"

\* A further call is within the bound.
CalcRoom == calc.issued < MaxCalcCalls

\* calculateGreeksAPI(newParams) up to its fetch, lines 187-203; it reads
\* nothing of its render afterwards.
calculateGreeksAPI(cs, newParams) ==
  [cs EXCEPT !.isLoading = TRUE, !.issued = @ + 1,
             !.calls = Append(@, Call("calculateGreeksAPI", newParams, ZeroGreeks))]

\* Lines 234-238.
CalcUpdateParam(key, value) ==
  /\ CalcRoom
  /\ calc' = calculateGreeksAPI([calc EXCEPT !.params[key] = value],
                                [calc.params EXCEPT ![key] = value])
  /\ UNCHANGED <<invocation, log, request, response, engineCalls, inflight, cdf, page>>

\* Lines 147-150 and, for the default params, lines 152-163.
CalcLoadPreset(preset) ==
  /\ CalcRoom
  /\ calc' = calculateGreeksAPI([calc EXCEPT !.params = preset], preset)
  /\ UNCHANGED <<invocation, log, request, response, engineCalls, inflight, cdf, page>>

\* Lines 240-252: runScenario up to its fetch.
runScenario(changes) ==
  /\ CalcRoom
  /\ calc' = [calc EXCEPT !.isLoading = TRUE, !.issued = @ + 1,
                          !.calls = Append(@, Call("runScenario",
                                                   Spread(calc.params, changes),
                                                   calc.greeks))]
  /\ UNCHANGED <<invocation, log, request, response, engineCalls, inflight, cdf, page>>

\* A variant of Settled in which the catch block leaves the loading flag.
SettledWithoutFinally(cs, call, outcome) ==
  [cs EXCEPT
     !.greeks = IF call.kind = "runScenario" THEN @
                ELSE IF outcome = "ok" THEN [of |-> <<call.body>>, error |-> ""]
                ELSE IF outcome = "error" THEN [@ EXCEPT !.error = MissingError]
                ELSE [@ EXCEPT !.error = FailedError],
     !.scenarioResults = IF call.kind = "runScenario" /\ outcome # "thrown"
                           THEN <<[original |-> call.greeks.of,
                                   new |-> IF outcome = "ok" THEN <<call.body>> ELSE <<>>]>>
                           ELSE @,
     !.unsuccessful = @ \/ outcome # "ok",
     !.isLoading = IF outcome = "thrown" THEN @ ELSE FALSE]

\* The rest of a call once its fetch has come to the outcome: lines 205-231
\* of calculateGreeksAPI, lines 254-267 of runScenario.
Settled(cs, call, outcome) ==
  [cs EXCEPT
     !.greeks = IF call.kind = "runScenario" THEN @
                ELSE IF outcome = "ok" THEN [of |-> <<call.body>>, error |-> ""]
                ELSE IF outcome = "error" THEN [@ EXCEPT !.error = MissingError]
                ELSE [@ EXCEPT !.error = FailedError],
     !.scenarioResults = IF call.kind = "runScenario" /\ outcome # "thrown"
                           THEN <<[original |-> call.greeks.of,
                                   new |-> IF outcome = "ok" THEN <<call.body>> ELSE <<>>]>>
                           ELSE @,
     !.unsuccessful = @ \/ outcome # "ok",
     !.isLoading = FALSE]

\* The fetch of call i settles.
CalcSettle(i, outcome) ==
  /\ i \in DOMAIN calc.calls
  /\ calc' = Settled([calc EXCEPT !.calls = Without(@, i)], calc.calls[i], outcome)
  /\ UNCHANGED <<invocation, log, request, response, engineCalls, inflight, cdf, page>>

SettleSome == \E i \in 1..MaxCalcCalls, outcome \in CalcOutcomes : CalcSettle(i, outcome)

NextCalc ==
  \/ \E u \in CalcUpdates : CalcUpdateParam(u[1], u[2])
  \/ \E preset \in presetScenarios : CalcLoadPreset(preset)
  \/ runScenario(TimeDecay(calc.params))
  \/ SettleSome

SpecCalc == Init /\ [][NextCalc]_vars

\* Every fetch eventually resolves or rejects.
SpecCalcLive == SpecCalc /\ WF_vars(SettleSome)

---------------------------------------------------------------------------
(* Overlapping calls in the component of options-calculator.tsx.           *)

\* Every call issued has settled, and settled successfully.
AllSettledOk == calc.calls = <<>> /\ ~calc.unsuccessful

\* C26: whatever order the responses of overlapping calculateGreeksAPI calls
\* arrive in, once every request issued has settled successfully the greeks
\* displayed are the result for the params set last.
C26_LatestWins == AllSettledOk => calc.greeks = [of |-> <<calc.params>>, error |-> ""]

\* Every call has settled successfully and the greeks displayed are the
\* result for the initial params, which a later updateParam or loadPreset has
\* replaced.
C26_LateResponseOverwrites ==
  /\ AllSettledOk
  /\ calc.params # DefaultParams
  /\ calc.greeks = [of |-> <<DefaultParams>>, error |-> ""]

\* C27: isLoading is true in every state in which a calculateGreeksAPI or
\* runScenario request is in flight.
C27_LoadingWhileInFlight == calc.calls # <<>> => calc.isLoading

\* What does hold: the flag is true from a call until the next response.
C27_LoadingOnlyWhileInFlight == calc.isLoading => calc.calls # <<>>

\* C28: every started calculation eventually clears the loading flag, the
\* fetches all settling: isLoading, once true, is false later, whether the
\* fetch ended in a result, a result with an error or the catch block.
C28_LoadingClears == calc.isLoading ~> ~calc.isLoading

\* A call of calculateGreeksAPI has ended in the catch block, no call is in
\* flight and the loading flag is false.
C28_Witness ==
  /\ calc.calls = <<>>
  /\ calc.greeks.error = FailedError
  /\ ~calc.isLoading

====
